---- MODULE Spec2Model ----
(***************************************************************************)
(* scripts/compile_cpp.py of bshoshany/thread-pool: the build script that  *)
(* precompiles the declared C++ modules by calling itself recursively,     *)
(* decides by modification times whether the main binary must be rebuilt,  *)
(* runs the compiler and optionally the compiled program.                  *)
(*                                                                         *)
(* One run of the script is a frame on `stack`; a module child is a frame  *)
(* pushed on top of its parent, which waits (subprocess.run) until the     *)
(* child has exited.  The file system is `mtime`: a modification time per  *)
(* path, 0 standing for "the path does not exist".  A run with --try-all   *)
(* is the matrix driver `matrix`, which starts one build after the other   *)
(* on `stack`.                                                             *)
(***************************************************************************)
EXTENDS Integers, Sequences, FiniteSets, TLC

VARIABLES
    mtime,      \* the file system: path -> modification time, 0 = no such file
    config,     \* compile_cpp.yaml in the working directory
    env,        \* the machine: operating system and the compilers installed
    argv,       \* the command line the user gave
    matrix,     \* the --try-all loop of the run the user started
    stack,      \* the running build and the module children below it
    log         \* what the processes of the current build did, in order

vars == <<mtime, config, env, argv, matrix, stack, log>>

-----------------------------------------------------------------------------
(* Bounds                                                                  *)

\* The latest modification time a file has before the run starts.
MaxTime == 3

\* The number of options of the command line and of the configuration file
\* that differ from their defaults in one run.
MaxOptions == 2

\* The number of times the user runs the same command line in a row.
MaxRuns == 2

-----------------------------------------------------------------------------
(* Paths                                                                   *)

SourceFiles == {"main.cpp", "std.cppm", "a.cppm", "b.cppm"}
HeaderFiles == {"dep.hpp", "std.hpp", "a.hpp"}
InputFiles == SourceFiles \cup HeaderFiles
\* The exit codes a compiler or a compiled program may return.
ReturnCodes == {0, 1, 2}

exists(path) == mtime[path] # 0

\* The time a file written or touched now gets: later than every file there is.
now == 1 + (CHOOSE t \in {mtime[f] : f \in DOMAIN mtime} :
                \A f \in DOMAIN mtime : mtime[f] <= t)

stem(file) ==
    CASE file = "main.cpp" -> "main"
      [] file = "std.cppm" -> "std"
      [] file = "a.cppm" -> "a"
      [] file = "b.cppm" -> "b"
      [] file = "dep.hpp" -> "dep"
      [] file = "std.hpp" -> "std"
      [] file = "a.hpp" -> "a"
      [] file = "lib/a.cppm" -> "a"

\* The compilers, in the order the script looks for them.
Compilers == <<"cl", "clang++", "g++">>

Systems == {"Windows", "Linux", "Darwin"}

short_compiler(compiler) ==
    IF compiler = "clang++" THEN "clang" ELSE IF compiler = "g++" THEN "gcc" ELSE "msvc"

\* args.std[-2:]
std_digits(std) ==
    CASE std = "c++17" -> "17"
      [] std = "c++20" -> "20"
      [] std = "c++23" -> "23"

\* f"{args.type}-{short_compiler}-cpp{args.std[-2:]}"
suffix(type, compiler, std) ==
    type \o "-" \o short_compiler(compiler) \o "-cpp" \o std_digits(std)

module_extension(compiler) ==
    IF compiler = "cl" THEN ".ifc" ELSE IF compiler = "clang++" THEN ".pcm" ELSE ".o"

\* build_folder / f"{stem}_module_{suffix}{module_extension}"
module_output_name(s, type, compiler, std) ==
    s \o "_module_" \o suffix(type, compiler, std) \o module_extension(compiler)

\* build_folder / f"{stem}_{module_indicator}{suffix}{extension}"
binary_name(file, as_module, type, compiler, std, system) ==
    LET extension == IF as_module THEN module_extension(compiler)
                     ELSE IF system = "Windows" THEN ".exe" ELSE ""
        module_indicator == IF as_module THEN "module_" ELSE ""
    IN  stem(file) \o "_" \o module_indicator \o suffix(type, compiler, std) \o extension

\* The folders an --output option names: an output that ends with "/". The
\* working directory is "".
OutputFolders == {"build/"}

\* The names a file of a build folder can have: those of the binaries and of
\* the module artifacts, and one file the script knows nothing of.
BaseNames ==
    { binary_name(file, as_module, type, Compilers[c], std, system) :
        file \in SourceFiles, as_module \in BOOLEAN, type \in {"debug", "release"},
        c \in 1..Len(Compilers), std \in {"c++17", "c++20", "c++23"}, system \in Systems }
    \cup {"other.txt"}

\* The path is that of a file in the folder.
in_folder(path, folder) == \E n \in BaseNames : path = folder \o n

\* output_path.parent: the folder of a file.
folder_of(path) ==
    IF \E d \in OutputFolders : in_folder(path, d)
    THEN CHOOSE d \in OutputFolders : in_folder(path, d)
    ELSE ""

\* build_folder: the output if it is a folder, else the folder of the output
\* file, else the working directory.
build_folder(output) ==
    IF output = "" THEN ""
    ELSE IF output \in OutputFolders THEN output
    ELSE folder_of(output)

-----------------------------------------------------------------------------
(* The modules dictionary: an insertion-ordered list of <<name, files>>.   *)

DictKeys(d) == [i \in 1..Len(d) |-> d[i][1]]

DictHas(d, k) == \E i \in 1..Len(d) : d[i][1] = k

DictGet(d, k) == d[CHOOSE i \in 1..Len(d) : d[i][1] = k][2]

\* d[k] = v: a new key goes last, an old key keeps its place.
DictSet(d, k, v) ==
    IF DictHas(d, k)
    THEN [i \in 1..Len(d) |-> IF d[i][1] = k THEN <<k, v>> ELSE d[i]]
    ELSE Append(d, <<k, v>>)

RECURSIVE DictUpdate(_, _)
DictUpdate(d, e) ==
    IF e = <<>> THEN d
    ELSE DictUpdate(DictSet(d, e[1][1], e[1][2]), Tail(e))

\* The text of a module specification "name=file,dependency,...".
ModuleSpecFiles(name) ==
    CASE name = "std" -> <<"std.cppm", "std.hpp">>
      [] name = "a" -> <<"a.cppm", "a.hpp">>
      [] name = "b" -> <<"b.cppm">>

ModuleSpecs(names) == [i \in 1..Len(names) |-> <<names[i], ModuleSpecFiles(names[i])>>]

-----------------------------------------------------------------------------
(* Staleness                                                               *)

\* any((path.exists() and path.stat().st_mtime > target_mod) for path in paths)
any_newer(paths, target) ==
    \E p \in paths : exists(p) /\ mtime[p] > mtime[target]

Range(s) == {s[i] : i \in 1..Len(s)}

\* module_up_to_date without the test that the artifact exists.
module_up_to_date_unchecked(paths, module_output_path) ==
    ~any_newer(Range(paths), module_output_path)

\* compile_module returns False without compiling: the module is up to date.
module_up_to_date(paths, module_output_path) ==
    /\ exists(module_output_path)
    /\ ~any_newer(Range(paths), module_output_path)

\* need_recompile without the test that a module was recompiled.
need_recompile_ignoring_modules(force, recompiled_modules, source_paths, deps_paths, binary_path) ==
    ~(/\ ~force
      /\ exists(binary_path)
      /\ ~any_newer(Range(source_paths) \cup deps_paths, binary_path))

\* need_recompile without the force flag.
need_recompile_unforced(force, recompiled_modules, source_paths, deps_paths, binary_path) ==
    ~(/\ ~recompiled_modules
      /\ exists(binary_path)
      /\ ~any_newer(Range(source_paths) \cup deps_paths, binary_path))

\* need_recompile of the main check.
need_recompile(force, recompiled_modules, source_paths, deps_paths, binary_path) ==
    ~(/\ ~force
      /\ ~recompiled_modules
      /\ exists(binary_path)
      /\ ~any_newer(Range(source_paths) \cup deps_paths, binary_path))

-----------------------------------------------------------------------------
(* The start of a run: options, configuration, modules, output path        *)

Standards == {"c++17", "c++20", "c++23"}

\* find_vs_path() is not None: vswhere.exe names an installation, on Windows.
find_vs_path(e) == e.system = "Windows" /\ e.vs

\* Is the compiler of that name installed (shutil.which, find_vs_path)?
installed(e, compiler) ==
    CASE compiler = "cl" -> find_vs_path(e)
      [] compiler = "clang++" -> e.clang
      [] compiler = "g++" -> e.gpp

\* The compiler of a build: the one asked for, or the first one found in the
\* order of the operating system; "" if none is found.
determine_compiler(args, e) ==
    IF args.compiler # "" THEN args.compiler
    ELSE IF e.system = "Windows"
         THEN IF find_vs_path(e) THEN "cl"
              ELSE IF e.clang THEN "clang++"
              ELSE IF e.gpp THEN "g++" ELSE ""
    ELSE IF e.system = "Linux"
         THEN IF e.gpp THEN "g++"
              ELSE IF e.clang THEN "clang++" ELSE ""
    ELSE IF e.system = "Darwin" /\ e.clang THEN "clang++"
    ELSE ""

\* No compile_cpp.yaml, or one that sets nothing. "" is an option not set.
NoConfiguration ==
    [deps |-> {}, modules |-> <<>>, defines |-> {}, includes |-> {},
     disable_exceptions |-> "", output |-> "", std_module |-> ""]

\* The configuration file a run reads: none with --ignore-config.
configuration(args) == IF args.ignore_config THEN NoConfiguration ELSE config

\* use_std_module without the test of the standard.
use_std_module_any_standard(std_module, std) ==
    ~(std_module = "" \/ std_module = "disable")

\* use_std_module: "" is an option that was not given.
use_std_module(std_module, std) ==
    ~(std_module = "" \/ std_module = "disable" \/ std # "c++23")

\* modules = {"std": [std_module], **modules}
with_std_first(std_module, modules) ==
    DictUpdate(<<<<"std", <<std_module>>>>>>, modules)

\* The options of a run once the configuration file is read: the output and
\* the std module path are taken from the file if the command line has none.
resolved(args) ==
    [args EXCEPT !.output = IF args.output # "" THEN args.output
                            ELSE configuration(args).output,
                 !.std_module = IF args.std_module # "" THEN args.std_module
                                ELSE configuration(args).std_module]

\* disable_exceptions: that of the command line, else that of the file.
exceptions_disabled(args) ==
    IF args.disable_exceptions # "" THEN args.disable_exceptions = "true"
    ELSE configuration(args).disable_exceptions = "true"

\* The merged modules dictionary of a run.
merged_modules(args) ==
    LET cli == DictUpdate(<<>>, ModuleSpecs(args.module))
        all == DictUpdate(cli, configuration(args).modules)
    IN  IF use_std_module(args.std_module, args.std)
        THEN with_std_first(args.std_module, all)
        ELSE all

\* module_output_paths[name] of a build.
module_output_path(frame, name) ==
    frame.build_folder \o module_output_name(stem(DictGet(frame.modules, name)[1]),
                                             frame.args.type, frame.compiler, frame.args.std)

\* The paths compile_module is given for a module.
compile_module_paths(modules, name) ==
    IF name = "std" THEN <<DictGet(modules, "std")[1]>> ELSE DictGet(modules, name)

\* modules_to_compile with the std module compiled after the others.
modules_to_compile_std_last(args, modules) ==
    LET std_first == IF use_std_module(args.std_module, args.std) /\ DictHas(modules, "std")
                     THEN <<"std">> ELSE <<>>
        others == IF Len(modules) > 0 /\ args.std \in {"c++20", "c++23"}
                  THEN SelectSeq(DictKeys(modules), LAMBDA n : n # "std")
                  ELSE <<>>
    IN  IF args.as_module THEN <<>> ELSE others \o std_first

\* modules_to_compile with only the std module skipped under as_module.
modules_to_compile_others_unguarded(args, modules) ==
    LET std_first == IF use_std_module(args.std_module, args.std) /\ DictHas(modules, "std")
                     THEN <<"std">> ELSE <<>>
        others == IF Len(modules) > 0 /\ args.std \in {"c++20", "c++23"}
                  THEN SelectSeq(DictKeys(modules), LAMBDA n : n # "std")
                  ELSE <<>>
    IN  IF args.as_module THEN others ELSE std_first \o others

\* modules_to_compile with the std module compiled under as_module too.
modules_to_compile_std_unguarded(args, modules) ==
    LET std_first == IF use_std_module(args.std_module, args.std) /\ DictHas(modules, "std")
                     THEN <<"std">> ELSE <<>>
        others == IF Len(modules) > 0 /\ args.std \in {"c++20", "c++23"}
                  THEN SelectSeq(DictKeys(modules), LAMBDA n : n # "std")
                  ELSE <<>>
    IN  IF args.as_module THEN std_first ELSE std_first \o others

\* The modules the run calls compile_module for, in that order.
modules_to_compile(args, modules) ==
    LET std_first == IF use_std_module(args.std_module, args.std) /\ DictHas(modules, "std")
                     THEN <<"std">> ELSE <<>>
        others == IF Len(modules) > 0 /\ args.std \in {"c++20", "c++23"}
                  THEN SelectSeq(DictKeys(modules), LAMBDA n : n # "std")
                  ELSE <<>>
    IN  IF args.as_module THEN <<>> ELSE std_first \o others

\* binary_path: the --output file, or the name made from the first source, in
\* the build folder.
resolve_binary_path(args, compiler, system) ==
    IF args.output # "" /\ args.output \notin OutputFolders THEN args.output
    ELSE build_folder(args.output)
           \o binary_name(args.files[1], args.as_module, args.type, compiler, args.std, system)

\* "-c" in sys.argv or "--compiler" in sys.argv: the option as a token of its
\* own; "--compiler=g++" and "-cg++" are one token with the value.
compiler_token(args) == args.compiler # "" /\ ~args.joined

\* "-s" in sys.argv or "--std" in sys.argv
std_token(args) == args.std # "c++23" /\ ~args.joined

\* The process state of a build that has parsed its options and reached the
\* module precompilation block, or has exited because it found no compiler,
\* because it was told to clear the working directory, or because it had only
\* to clear the build folder.
\* A process that still has the matrix flag on its command line, a build of
\* the matrix, takes the --try-all block first: it is rejected there, or goes
\* on to the loops itself (pc "try_all").
start(args) ==
    LET compiler == determine_compiler(args, env)
        opts == resolved(args)
        modules == merged_modules(opts)
        work == IF compiler = "" THEN <<>> ELSE modules_to_compile(opts, modules)
        clear_cwd == args.clear_output /\ build_folder(opts.output) = ""
        clear_only == args.clear_output /\ args.files = <<>>
    IN  [ args |-> args,
          compiler |-> compiler,
          defines |-> args.define \cup configuration(args).defines,
          deps |-> args.deps \cup configuration(args).deps,
          disable_exceptions |-> exceptions_disabled(args),
          includes |-> args.include \cup configuration(args).includes,
          modules |-> modules,
          output |-> opts.output,
          build_folder |-> build_folder(opts.output),
          std_module |-> opts.std_module,
          binary_path |-> IF compiler = "" \/ args.files = <<>> THEN ""
                          ELSE resolve_binary_path(opts, compiler, env.system),
          flags |-> IF use_std_module(opts.std_module, args.std) /\ DictHas(modules, "std")
                    THEN <<"std">> ELSE <<>>,
          work |-> work,
          idx |-> 1,
          recompiled_modules |-> FALSE,
          need_recompile |-> TRUE,
          returncode |-> IF args.try_all
                         THEN (IF compiler_token(args) \/ std_token(args) THEN 1 ELSE 0)
                         ELSE IF compiler = "" \/ clear_cwd THEN 1 ELSE 0,
          error |-> IF args.try_all
                    THEN (IF compiler_token(args) \/ std_token(args)
                          THEN "try_all_rejected" ELSE "")
                    ELSE IF compiler = "" THEN "no_compiler"
                    ELSE IF clear_cwd THEN "clear_cwd" ELSE "",
          pc |-> IF args.try_all
                 THEN (IF compiler_token(args) \/ std_token(args) THEN "exit" ELSE "try_all")
                 ELSE IF compiler = "" \/ clear_cwd \/ clear_only THEN "exit"
                 ELSE IF work = <<>> THEN "check" ELSE "modules" ]

\* The file system once a process with that command line has started: the
\* build folder is cleared and made anew with --clear-output, made if it is
\* not there without; nothing is done by a process that exits before.
prepare_build_folder(args) ==
    LET frame == start(args)
        folder == frame.build_folder
    IN  IF frame.error # "" \/ frame.pc = "try_all" \/ folder = "" THEN mtime
        ELSE IF args.clear_output
             THEN [f \in DOMAIN mtime |->
                      IF f = folder THEN now
                      ELSE IF in_folder(f, folder) THEN 0
                      ELSE mtime[f]]
        ELSE [mtime EXCEPT ![folder] = IF @ = 0 THEN now ELSE @]

\* module_command without --output and --type: the child names its artifact
\* itself, in the default build mode.
module_command_without_output(frame, name) ==
    [ script |-> "compile_cpp.py",
      files |-> <<DictGet(frame.modules, name)[1]>>,
      output |-> "",
      compiler |-> frame.compiler,
      joined |-> TRUE,
      std |-> frame.args.std,
      type |-> "debug",
      define |-> frame.args.define,
      include |-> frame.args.include,
      flag |-> frame.args.flag,
      disable_exceptions |-> IF frame.disable_exceptions THEN "true" ELSE "false",
      std_module |-> IF name = "std" THEN "disable" ELSE frame.std_module,
      as_module |-> TRUE,
      force |-> FALSE,
      run |-> FALSE,
      try_all |-> FALSE,
      abbreviated |-> FALSE,
      ignore_config |-> FALSE,
      clear_output |-> FALSE,
      module |-> <<>>,
      deps |-> {} ]

\* module_command passing --clear-output to the child.
module_command_clearing(frame, name) ==
    [ script |-> "compile_cpp.py",
      files |-> <<DictGet(frame.modules, name)[1]>>,
      output |-> module_output_path(frame, name),
      compiler |-> frame.compiler,
      joined |-> TRUE,
      std |-> frame.args.std,
      type |-> frame.args.type,
      define |-> frame.args.define,
      include |-> frame.args.include,
      flag |-> frame.args.flag,
      disable_exceptions |-> IF frame.disable_exceptions THEN "true" ELSE "false",
      std_module |-> IF name = "std" THEN "disable" ELSE frame.std_module,
      as_module |-> TRUE,
      force |-> FALSE,
      run |-> FALSE,
      try_all |-> FALSE,
      abbreviated |-> FALSE,
      ignore_config |-> FALSE,
      clear_output |-> TRUE,
      module |-> <<>>,
      deps |-> {} ]

\* module_command passing the std module path on to the child of std too.
module_command_std_passed(frame, name) ==
    [ script |-> "compile_cpp.py",
      files |-> <<DictGet(frame.modules, name)[1]>>,
      output |-> module_output_path(frame, name),
      compiler |-> frame.compiler,
      joined |-> TRUE,
      std |-> frame.args.std,
      type |-> frame.args.type,
      define |-> frame.args.define,
      include |-> frame.args.include,
      flag |-> frame.args.flag,
      disable_exceptions |-> IF frame.disable_exceptions THEN "true" ELSE "false",
      std_module |-> frame.std_module,
      as_module |-> TRUE,
      force |-> FALSE,
      run |-> FALSE,
      try_all |-> FALSE,
      abbreviated |-> FALSE,
      ignore_config |-> FALSE,
      clear_output |-> FALSE,
      module |-> <<>>,
      deps |-> {} ]

\* module_command: the command line of the child that compiles a module.
module_command(frame, name) ==
    [ script |-> "compile_cpp.py",
      files |-> <<DictGet(frame.modules, name)[1]>>,
      output |-> module_output_path(frame, name),
      compiler |-> frame.compiler,
      joined |-> TRUE,
      std |-> frame.args.std,
      type |-> frame.args.type,
      define |-> frame.args.define,
      include |-> frame.args.include,
      flag |-> frame.args.flag,
      disable_exceptions |-> IF frame.disable_exceptions THEN "true" ELSE "false",
      std_module |-> IF name = "std" THEN "disable" ELSE frame.std_module,
      as_module |-> TRUE,
      force |-> FALSE,
      run |-> FALSE,
      try_all |-> FALSE,
      abbreviated |-> FALSE,
      ignore_config |-> FALSE,
      clear_output |-> FALSE,
      module |-> <<>>,
      deps |-> {} ]

-----------------------------------------------------------------------------
(* The matrix driver: the --try-all block of compile_cpp.py and the loop   *)
(* of test_all.py                                                          *)

\* compilers: the compilers found, in the order they are looked for.
available_compilers(e) ==
    SelectSeq(Compilers, LAMBDA c : installed(e, c) /\ (c = "g++" => e.system # "Darwin"))

\* standards
MatrixStandards == <<"c++17", "c++20", "c++23">>

\* No matrix: the user started a single build.
NoMatrix ==
    [pc |-> "off", driver |-> "", compilers |-> <<>>, i |-> 1, executed |-> <<>>,
     returncode |-> 0, report |-> FALSE]

\* The compiler and the standard of the i-th turn of the two nested loops.
loop_compiler(m) == m.compilers[((m.i - 1) \div Len(MatrixStandards)) + 1]

loop_std(m) == MatrixStandards[((m.i - 1) % Len(MatrixStandards)) + 1]

\* The loops go on with turn m.i, or are over: the success report, exit 0.
matrix_next(m) ==
    IF m.i > Len(m.compilers) * Len(MatrixStandards)
    THEN [m EXCEPT !.pc = "exit", !.returncode = 0, !.report = TRUE]
    ELSE [m EXCEPT !.pc = "loop"]

\* The driver of compile_cpp.py --try-all when it reaches its loops.
try_all(args, e) ==
    IF compiler_token(args) \/ std_token(args)
    THEN [NoMatrix EXCEPT !.pc = "exit", !.driver = "compile_cpp.py", !.returncode = 1]
    ELSE matrix_next([NoMatrix EXCEPT !.driver = "compile_cpp.py",
                                      !.compilers = available_compilers(e)])

\* The driver of test_all.py when it reaches its loops.
test_all(args, e) ==
    matrix_next([NoMatrix EXCEPT !.driver = "test_all.py",
                                 !.compilers = available_compilers(e)])

warnings_as_errors(compiler) == IF compiler = "cl" THEN "/WX" ELSE "-Werror"

\* command with the driver's compiler and standard joined to their options
\* (--compiler=g++), not tokens of their own.
command_joined(m, args) ==
    IF m.driver = "test_all.py"
    THEN [ script |-> "compile_cpp.py", files |-> <<"main.cpp">>, output |-> "",
           compiler |-> loop_compiler(m), joined |-> TRUE, std |-> loop_std(m),
           type |-> "release", flag |-> {warnings_as_errors(loop_compiler(m))},
           std_module |-> "", as_module |-> FALSE, force |-> FALSE,
           run |-> args.run, try_all |-> FALSE, module |-> <<>>, deps |-> {},
           define |-> {}, include |-> {}, disable_exceptions |-> "",
           abbreviated |-> FALSE, ignore_config |-> FALSE, clear_output |-> FALSE ]
    ELSE [args EXCEPT !.try_all = args.try_all /\ args.abbreviated,
                      !.joined = TRUE,
                      !.compiler = IF args.compiler # "" THEN args.compiler
                                   ELSE loop_compiler(m),
                      !.std = IF args.std # "c++23" THEN args.std ELSE loop_std(m),
                      !.flag = {warnings_as_errors(loop_compiler(m))} \cup args.flag]

\* command: the command line of a build of the matrix. compile_cpp.py puts its
\* own -c and -s, tokens of their own, before the user's arguments, of which
\* it drops the tokens "-y" and "--try-all" and no other spelling of the flag;
\* the parser keeps the last value of an option given twice.
command(m, args) ==
    IF m.driver = "test_all.py"
    THEN [ script |-> "compile_cpp.py", files |-> <<"main.cpp">>, output |-> "",
           compiler |-> loop_compiler(m), joined |-> FALSE, std |-> loop_std(m),
           type |-> "release", flag |-> {warnings_as_errors(loop_compiler(m))},
           std_module |-> "", as_module |-> FALSE, force |-> FALSE,
           run |-> args.run, try_all |-> FALSE, module |-> <<>>, deps |-> {},
           define |-> {}, include |-> {}, disable_exceptions |-> "",
           abbreviated |-> FALSE, ignore_config |-> FALSE, clear_output |-> FALSE ]
    ELSE [args EXCEPT !.try_all = args.try_all /\ args.abbreviated,
                      !.joined = FALSE,
                      !.compiler = IF args.compiler # "" THEN args.compiler
                                   ELSE loop_compiler(m),
                      !.std = IF args.std # "c++23" THEN args.std ELSE loop_std(m),
                      !.flag = {warnings_as_errors(loop_compiler(m))} \cup args.flag]

\* matrix_returned going on with the loops whatever the exit code.
matrix_returned_unchecked(m, returncode) == matrix_next([m EXCEPT !.i = m.i + 1])

\* matrix_returned exiting with the exit code of the build.
matrix_returned_verbatim(m, returncode) ==
    IF returncode # 0
    THEN [m EXCEPT !.pc = "exit", !.returncode = returncode]
    ELSE matrix_next([m EXCEPT !.i = m.i + 1])

\* What the driver does with the exit code of a build.
matrix_returned(m, returncode) ==
    IF returncode # 0
    THEN [m EXCEPT !.pc = "exit",
                   !.returncode = IF m.driver = "test_all.py" THEN returncode ELSE 1]
    ELSE matrix_next([m EXCEPT !.i = m.i + 1])

-----------------------------------------------------------------------------
(* The log                                                                 *)

\* One thing a process did. depth 1 is the top-level run, depth 2 a module
\* child. name is a module name ("" if none), path the artifact concerned;
\* present says whether the artifact existed when it was looked at; stale is
\* the decision taken; rc the exit code received (-1: the process could not be
\* launched).
Event(ev, depth, name, path, present, stale, rc) ==
    [ev |-> ev, depth |-> depth, name |-> name, path |-> path,
     present |-> present, stale |-> stale, rc |-> rc]

Depth == Len(stack)
Top == stack[Len(stack)]
SetTop(frame) == [stack EXCEPT ![Len(stack)] = frame]

\* The build the pipeline steps act on is running: it was started by the user
\* or by the matrix driver, which waits for it.
Running == stack # <<>> /\ matrix.pc \in {"off", "wait"}

-----------------------------------------------------------------------------
(* The steps of a run                                                      *)

\* The user starts the script.
Invoke ==
    /\ stack = <<>>
    /\ matrix.pc = "off"
    /\ stack' = IF argv.script = "test_all.py" \/ argv.try_all THEN stack
                ELSE <<start(argv)>>
    /\ matrix' = IF argv.script = "test_all.py" THEN test_all(argv, env)
                 ELSE IF argv.try_all THEN try_all(argv, env)
                 ELSE matrix
    /\ mtime' = IF argv.script = "test_all.py" \/ argv.try_all THEN mtime
                ELSE prepare_build_folder(argv)
    /\ UNCHANGED <<config, env, argv, log>>

\* The position after compile_module returned for the module at idx.
after_module(frame, recompiled) ==
    [frame EXCEPT !.idx = frame.idx + 1,
                  !.recompiled_modules = frame.recompiled_modules \/ recompiled,
                  !.pc = IF frame.idx + 1 > Len(frame.work) THEN "check" ELSE "modules"]

\* The flags list after get_module_flags was added for the module at idx (those
\* of std were added before the loop).
add_module_flags(frame, name) ==
    IF name = "std" THEN frame.flags ELSE Append(frame.flags, name)

\* ModuleUpToDate without the import flags of the module.
ModuleUpToDateWithoutFlags ==
    /\ Running
    /\ Top.pc = "modules"
    /\ LET name == Top.work[Top.idx]
           out == module_output_path(Top, name)
           paths == compile_module_paths(Top.modules, name)
       IN  /\ module_up_to_date(paths, out)
           /\ stack' = SetTop(after_module(Top, FALSE))
           /\ log' = Append(log, Event("module_up_to_date", Depth, name, out, exists(out), FALSE, 0))
    /\ UNCHANGED <<mtime, config, env, argv, matrix>>

\* compile_module finds the module up to date and returns False.
ModuleUpToDate ==
    /\ Running
    /\ Top.pc = "modules"
    /\ LET name == Top.work[Top.idx]
           out == module_output_path(Top, name)
           paths == compile_module_paths(Top.modules, name)
       IN  /\ module_up_to_date(paths, out)
           /\ stack' = SetTop(after_module([Top EXCEPT !.flags = add_module_flags(Top, name)], FALSE))
           /\ log' = Append(log, Event("module_up_to_date", Depth, name, out, exists(out), FALSE, 0))
    /\ UNCHANGED <<mtime, config, env, argv, matrix>>

\* compile_module finds the module stale and runs the script on it.
ModuleSpawn ==
    /\ Running
    /\ Top.pc = "modules"
    /\ LET name == Top.work[Top.idx]
           out == module_output_path(Top, name)
           paths == compile_module_paths(Top.modules, name)
       IN  /\ ~module_up_to_date(paths, out)
           /\ stack' = Append(SetTop([Top EXCEPT !.flags = add_module_flags(Top, name), !.pc = "wait"]),
                              start(module_command(Top, name)))
           /\ mtime' = prepare_build_folder(module_command(Top, name))
           /\ log' = Append(log, Event("module_spawn", Depth, name, out, exists(out), TRUE, 0))
    /\ UNCHANGED <<config, env, argv, matrix>>

\* module_returned without the test of the exit code.
module_returned_unchecked(frame, returncode) == after_module(frame, TRUE)

\* What the parent does with the exit code of a module child.
module_returned(frame, returncode) ==
    IF returncode # 0
    THEN [frame EXCEPT !.pc = "exit", !.returncode = 1, !.error = "module_failed"]
    ELSE after_module(frame, TRUE)

\* The module child has exited; subprocess.run returns in the parent.
ModuleResult ==
    /\ Running
    /\ Len(stack) >= 2
    /\ Top.pc = "exit"
    /\ LET parent == stack[Len(stack) - 1]
           name == parent.work[parent.idx]
       IN  /\ stack' = [SubSeq(stack, 1, Len(stack) - 1) EXCEPT
                           ![Len(stack) - 1] = module_returned(parent, Top.returncode)]
           /\ log' = Append(log, Event("module_result", Depth - 1, name,
                                       module_output_path(parent, name),
                                       exists(module_output_path(parent, name)),
                                       FALSE, Top.returncode))
    /\ UNCHANGED <<mtime, config, env, argv, matrix>>

\* Where a run goes once its binary is compiled or found up to date.
after_compile(frame) ==
    IF frame.args.run THEN [frame EXCEPT !.pc = "run"]
    ELSE [frame EXCEPT !.pc = "exit", !.returncode = 0]

\* The main staleness check.
Check ==
    /\ Running
    /\ Top.pc = "check"
    /\ LET need == need_recompile(Top.args.force, Top.recompiled_modules,
                                  Top.args.files, Top.deps, Top.binary_path)
       IN  /\ stack' = SetTop(IF need THEN [Top EXCEPT !.need_recompile = TRUE, !.pc = "compile"]
                              ELSE after_compile([Top EXCEPT !.need_recompile = FALSE]))
           /\ log' = Append(log, Event("check", Depth, "", Top.binary_path,
                                       exists(Top.binary_path), need, 0))
    /\ UNCHANGED <<mtime, config, env, argv, matrix>>

\* compiler_returned going on whatever the compiler returned.
compiler_returned_unchecked(frame, launched, returncode) == after_compile(frame)

\* compiler_returned with one error message for every failure.
compiler_returned_one_message(frame, launched, returncode) ==
    IF launched /\ returncode = 0 THEN after_compile(frame)
    ELSE [frame EXCEPT !.pc = "exit", !.returncode = 1, !.error = "compile_failed"]

\* compiler_returned exiting with the compiler's own exit code.
compiler_returned_verbatim(frame, launched, returncode) ==
    IF launched /\ returncode = 0 THEN after_compile(frame)
    ELSE [frame EXCEPT !.pc = "exit", !.returncode = IF launched THEN returncode ELSE 1,
                       !.error = IF launched THEN "compile_failed" ELSE "compile_exception"]

\* What the script does once the compiler has returned.
compiler_returned(frame, launched, returncode) ==
    IF launched /\ returncode = 0 THEN after_compile(frame)
    ELSE [frame EXCEPT !.pc = "exit", !.returncode = 1,
                       !.error = IF launched THEN "compile_failed" ELSE "compile_exception"]

\* What the script itself does to the artifact once the compiler has returned.
artifact_after(launched, returncode, left) == left

\* The compiler runs. It cannot be launched (always so if it is not installed),
\* or it returns some exit code; with exit code 0 it has written the artifact,
\* otherwise it has left the old file, written a file or removed the file. It
\* writes nothing without its sources.
Compile(launched, returncode, effect) ==
    /\ Running
    /\ Top.pc = "compile"
    /\ launched => installed(env, Top.compiler)
    /\ launched /\ returncode = 0 => effect = "write"
    /\ effect = "write" => \A f \in Range(Top.args.files) : exists(f)
    /\ ~launched => returncode = -1 /\ effect = "keep"
    /\ launched => returncode \in ReturnCodes
    /\ LET left == CASE effect = "write" -> now
                     [] effect = "remove" -> 0
                     [] OTHER -> mtime[Top.binary_path]
       IN  mtime' = [mtime EXCEPT ![Top.binary_path] = artifact_after(launched, returncode, left)]
    /\ stack' = SetTop(compiler_returned(Top, launched, returncode))
    /\ log' = Append(log, Event("compile", Depth, "", Top.binary_path,
                                exists(Top.binary_path), effect = "write", returncode))
    /\ UNCHANGED <<config, env, argv, matrix>>

\* What the script does once the compiled program has returned.
program_returned(frame, launched, returncode) ==
    IF launched /\ returncode = 0 THEN [frame EXCEPT !.pc = "exit", !.returncode = 0]
    ELSE [frame EXCEPT !.pc = "exit", !.returncode = 1,
                       !.error = IF launched THEN "run_failed" ELSE "run_exception"]

\* The compiled program runs.
Run(launched, returncode) ==
    /\ Running
    /\ Top.pc = "run"
    /\ ~launched => returncode = -1
    /\ launched => returncode \in ReturnCodes
    /\ stack' = SetTop(program_returned(Top, launched, returncode))
    /\ log' = Append(log, Event("run", Depth, "", Top.binary_path,
                                exists(Top.binary_path), FALSE, returncode))
    /\ UNCHANGED <<mtime, config, env, argv, matrix>>

\* The driver starts the build of the next turn of its loops, or
\* subprocess.run raises and the driver gives up.
MatrixSpawn(launched) ==
    /\ matrix.pc = "loop"
    /\ matrix' = IF launched THEN [matrix EXCEPT !.pc = "wait"]
                 ELSE [matrix EXCEPT !.pc = "exit", !.returncode = 1]
    /\ stack' = IF launched THEN <<start(command(matrix, argv))>> ELSE stack
    /\ mtime' = IF launched THEN prepare_build_folder(command(matrix, argv)) ELSE mtime
    /\ log' = IF launched THEN <<>> ELSE log
    /\ UNCHANGED <<config, env, argv>>

\* The build of the turn is over: subprocess.run returns its exit code, or
\* the negated number of the signal that killed it, at whatever point it was.
MatrixResult(killed) ==
    /\ matrix.pc = "wait"
    /\ ~killed => Len(stack) = 1 /\ stack[1].pc = "exit"
    /\ LET returncode == IF killed THEN -9 ELSE stack[1].returncode
           turn == [compiler |-> loop_compiler(matrix), std |-> loop_std(matrix),
                    args |-> stack[1].args, returncode |-> returncode]
       IN  matrix' = matrix_returned([matrix EXCEPT !.executed = Append(@, turn)], returncode)
    /\ UNCHANGED <<mtime, config, env, argv, stack, log>>

-----------------------------------------------------------------------------
(* The command lines, configuration files and file systems a run starts in *)

ModuleLists == {<<>>, <<"a", "b">>, <<"b", "a">>, <<"a", "std", "b">>}

\* The machine the script is developed on: Linux with GCC.
DefaultEnvironment == [system |-> "Linux", vs |-> FALSE, clang |-> FALSE, gpp |-> TRUE]

CommandLines ==
    [ script : {"compile_cpp.py"},
      define : {{}},
      include : {{}},
      disable_exceptions : {""},
      abbreviated : {FALSE},
      ignore_config : {FALSE},
      clear_output : {FALSE},
      files : {<<"main.cpp">>},
      output : {""},
      compiler : {""},
      joined : {FALSE},
      std : Standards,
      type : {"debug", "release"},
      flag : {{}},
      try_all : {FALSE},
      std_module : {"", "disable", "std.cppm"},
      as_module : BOOLEAN,
      force : BOOLEAN,
      run : BOOLEAN,
      module : ModuleLists,
      deps : {{}, {"dep.hpp"}} ]

Configurations ==
    [ deps : {{}, {"dep.hpp"}},
      modules : {<<>>, ModuleSpecs(<<"b">>)},
      defines : {{}},
      includes : {{}},
      disable_exceptions : {""},
      output : {""},
      std_module : {""} ]

\* The number of options that are not at their default.
Options(args, cfg) ==
      (IF args.std # "c++23" THEN 1 ELSE 0)
    + (IF args.type # "debug" THEN 1 ELSE 0)
    + (IF args.std_module # "" THEN 1 ELSE 0)
    + (IF args.as_module THEN 1 ELSE 0)
    + (IF args.force THEN 1 ELSE 0)
    + (IF args.run THEN 1 ELSE 0)
    + (IF args.module # <<>> THEN 1 ELSE 0)
    + (IF args.deps # {} THEN 1 ELSE 0)
    + (IF cfg.deps # {} THEN 1 ELSE 0)
    + (IF cfg.modules # <<>> THEN 1 ELSE 0)

\* A target with its inputs: the main binary, or the artifact of a module.
Targets == {"main", "std", "a", "b"}

TargetSource(t) == IF t = "main" THEN "main.cpp" ELSE ModuleSpecFiles(t)[1]

TargetHeaders(t) ==
    CASE t = "main" -> {"dep.hpp"}
      [] t = "std" -> {"std.hpp"}
      [] t = "a" -> {"a.hpp"}
      [] t = "b" -> {}

\* The artifact of a target in a build of the command line with that compiler
\* and standard.
TargetArtifact(t, args, e, compiler, std) ==
    IF t = "main"
    THEN binary_name("main.cpp", args.as_module, args.type, compiler, std, e.system)
    ELSE module_output_name(stem(TargetSource(t)), args.type, compiler, std)

\* The builds a run of the command line makes: <<compiler, standard>>.
Builds(args, e) ==
    IF args.script = "test_all.py" \/ args.try_all
    THEN (Range(available_compilers(e)) \cup ({args.compiler} \ {""})) \X Standards
    ELSE ({determine_compiler(args, e)} \ {""}) \X {args.std}

\* The paths a run of the command line can look at.
Files(args, e) ==
    InputFiles \cup { TargetArtifact(t, args, e, p[1], p[2]) : t \in Targets, p \in Builds(args, e) }

\* The targets the command line and the configuration file name.
Named(args, cfg) ==
    {"main"} \cup Range(args.module) \cup Range(DictKeys(cfg.modules))
             \cup (IF args.std_module \notin {"", "disable"} THEN {"std"} ELSE {})

\* A file system: the targets in `built` were built at time 2, by the build
\* p, from inputs of time 1, the others were never built; then the files of
\* target t were given the times art (artifact), src (source) and hdr (headers).
FileSystem(args, e, p, built, t, art, src, hdr) ==
    [f \in Files(args, e) |->
        IF f = TargetArtifact(t, args, e, p[1], p[2]) THEN art
        ELSE IF f = TargetSource(t) THEN src
        ELSE IF f \in TargetHeaders(t) THEN hdr
        ELSE IF f \in InputFiles THEN 1
        ELSE IF \E u \in built : f = TargetArtifact(u, args, e, p[1], p[2]) THEN 2
        ELSE 0]

\* Without an artifact the times of the inputs decide nothing, only whether
\* they exist.
FileSystems(args, cfg, e) ==
    { FileSystem(args, e, p, built, t, 2, src, hdr) :
        p \in Builds(args, e), built \in SUBSET Named(args, cfg),
        t \in Named(args, cfg), src \in 0..MaxTime, hdr \in 0..MaxTime }
    \cup
    { FileSystem(args, e, p, built, t, 0, src, hdr) :
        p \in Builds(args, e), built \in SUBSET Named(args, cfg),
        t \in Named(args, cfg), src \in {0, 1}, hdr \in {0, 1} }

Init ==
    /\ argv \in CommandLines
    /\ config \in Configurations
    /\ Options(argv, config) <= MaxOptions
    /\ env = DefaultEnvironment
    /\ mtime \in FileSystems(argv, config, env)
    /\ matrix = NoMatrix
    /\ stack = <<>>
    /\ log = <<>>

Next ==
    \/ Invoke
    \/ ModuleUpToDate
    \/ ModuleSpawn
    \/ ModuleResult
    \/ Check
    \/ \E launched \in BOOLEAN, returncode \in ReturnCodes \cup {-1},
          effect \in {"keep", "write", "remove"} :
            Compile(launched, returncode, effect)
    \/ \E launched \in BOOLEAN, returncode \in ReturnCodes \cup {-1} :
            Run(launched, returncode)

Spec == Init /\ [][Next]_vars

-----------------------------------------------------------------------------
(* Runs on every machine, single builds and matrix runs                    *)

\* Visual Studio is found on Windows only.
Environments ==
    { e \in [system : Systems, vs : BOOLEAN, clang : BOOLEAN, gpp : BOOLEAN] :
        e.vs => e.system = "Windows" }

\* compile_cpp.py with or without --try-all, spelled so or abbreviated
\* (--try), the compiler and the standard given or not, as a token of their
\* own or joined to their value; and
\* test_all.py with or without --compile-only.
ToolchainCommandLines ==
    [ script : {"compile_cpp.py"},
      define : {{}},
      include : {{}},
      disable_exceptions : {""},
      abbreviated : BOOLEAN,
      ignore_config : {FALSE},
      clear_output : {FALSE},
      files : {<<"main.cpp">>},
      output : {""},
      compiler : {"", "clang++", "g++"},
      joined : BOOLEAN,
      std : {"c++23", "c++17"},
      type : {"debug"},
      flag : {{}},
      try_all : BOOLEAN,
      std_module : {""},
      as_module : {FALSE},
      force : {FALSE},
      run : BOOLEAN,
      module : {<<>>, <<"a">>},
      deps : {{}} ]
    \cup
    [ script : {"test_all.py"},
      define : {{}},
      include : {{}},
      disable_exceptions : {""},
      abbreviated : {FALSE},
      ignore_config : {FALSE},
      clear_output : {FALSE},
      files : {<<"main.cpp">>},
      output : {""},
      compiler : {""},
      joined : {FALSE},
      std : {"c++23"},
      type : {"release"},
      flag : {{}},
      try_all : {FALSE},
      std_module : {""},
      as_module : {FALSE},
      force : {FALSE},
      run : BOOLEAN,
      module : {<<>>},
      deps : {{}} ]

ToolchainOptions(args) ==
      (IF args.compiler # "" THEN 1 ELSE 0)
    + (IF args.std # "c++23" THEN 1 ELSE 0)
    + (IF args.try_all THEN 1 ELSE 0)
    + (IF args.run THEN 1 ELSE 0)
    + (IF args.module # <<>> THEN 1 ELSE 0)

\* Nothing was built yet, or every build the run makes was made before.
ToolchainFileSystems(args, e) ==
    { [f \in Files(args, e) |-> IF f \in InputFiles THEN 1 ELSE art] : art \in {0, 2} }

ToolchainInit ==
    /\ argv \in ToolchainCommandLines
    /\ ToolchainOptions(argv) <= MaxOptions
    /\ (argv.joined => argv.compiler # "" \/ argv.std # "c++23")
    /\ (argv.abbreviated => argv.try_all)
    /\ config = NoConfiguration
    /\ env \in Environments
    /\ mtime \in ToolchainFileSystems(argv, env)
    /\ matrix = NoMatrix
    /\ stack = <<>>
    /\ log = <<>>

ToolchainNext ==
    \/ Next
    \/ \E launched \in BOOLEAN : MatrixSpawn(launched)
    \/ \E killed \in BOOLEAN : MatrixResult(killed)

ToolchainSpec == ToolchainInit /\ [][ToolchainNext]_vars

-----------------------------------------------------------------------------
(* Single builds with the options of the command line against those of the *)
(* configuration file, and with an output file or folder                   *)

\* A compile_cpp.yaml that sets every option the script reads from it; it
\* declares the module a without its header.
FullConfiguration ==
    [deps |-> {"dep.hpp"},
     modules |-> <<<<"a", <<"a.cppm">>>>>>,
     defines |-> {"CONFIG"},
     includes |-> {"config_include"},
     disable_exceptions |-> "true",
     output |-> "cfg_prog",
     std_module |-> "std.cppm"]

OptionsCommandLines ==
    [ script : {"compile_cpp.py"},
      files : {<<"main.cpp">>, <<>>},
      output : {"", "prog", "build/"},
      compiler : {""},
      joined : {FALSE},
      std : {"c++23"},
      type : {"debug", "release"},
      flag : {{}},
      define : {{}, {"NDEBUG"}},
      include : {{}, {"include"}},
      disable_exceptions : {"", "true", "false"},
      abbreviated : {FALSE},
      ignore_config : BOOLEAN,
      clear_output : BOOLEAN,
      try_all : {FALSE},
      std_module : {"", "disable"},
      as_module : {FALSE},
      force : {FALSE},
      run : BOOLEAN,
      module : {<<>>, <<"a">>},
      deps : {{}} ]

\* The number of options on the command line.
CommandLineOptions(args) ==
      (IF args.output # "" THEN 1 ELSE 0)
    + (IF args.type # "debug" THEN 1 ELSE 0)
    + (IF args.define # {} THEN 1 ELSE 0)
    + (IF args.include # {} THEN 1 ELSE 0)
    + (IF args.disable_exceptions # "" THEN 1 ELSE 0)
    + (IF args.ignore_config THEN 1 ELSE 0)
    + (IF args.clear_output THEN 1 ELSE 0)
    + (IF args.std_module # "" THEN 1 ELSE 0)
    + (IF args.run THEN 1 ELSE 0)
    + (IF args.module # <<>> THEN 1 ELSE 0)

\* The paths a build with an output option can look at: those of a build
\* without, the output files, the output folder and the files in it.
OptionsFiles(args, e) ==
    Files(args, e) \cup {"prog", "cfg_prog"} \cup OutputFolders
      \cup { d \o f : d \in OutputFolders, f \in (Files(args, e) \ InputFiles) \cup {"other.txt"} }

\* Nothing was built yet and there is no output folder, or everything was.
OptionsFileSystems(args, e) ==
    { [f \in OptionsFiles(args, e) |-> IF f \in InputFiles THEN 1 ELSE art] : art \in {0, 2} }

\* Without a source file the script can only clear the build folder.
OptionsInit ==
    /\ argv \in OptionsCommandLines
    /\ CommandLineOptions(argv) <= MaxOptions
    /\ (argv.files = <<>> => argv.clear_output)
    /\ config \in {NoConfiguration, FullConfiguration}
    /\ env = DefaultEnvironment
    /\ mtime \in OptionsFileSystems(argv, env)
    /\ matrix = NoMatrix
    /\ stack = <<>>
    /\ log = <<>>

OptionsSpec == OptionsInit /\ [][Next]_vars

-----------------------------------------------------------------------------
(* What the claims speak of                                                *)

Last == log[Len(log)]

\* The files a module was declared with: its specification on the command line
\* or in the configuration file, or the path given as the std module.
DeclaredFiles(args, name) ==
    IF name \in Range(args.module) THEN ModuleSpecFiles(name)
    ELSE IF DictHas(config.modules, name) THEN DictGet(config.modules, name)
    ELSE <<args.std_module>>

\* The declared inputs of the binary of a run: its sources and the dependencies
\* declared on its command line or in the configuration file.
DeclaredInputs(args) == Range(args.files) \cup args.deps \cup config.deps

\* Some input that exists is strictly newer than the artifact.
NewerInput(inputs, artifact) ==
    \E f \in inputs : mtime[f] # 0 /\ mtime[f] > mtime[artifact]

IsModuleDecision(e) == e.ev \in {"module_up_to_date", "module_spawn"}

\* The std module was requested: a path for it, under C++23.
StdRequested(args) == args.std = "c++23" /\ args.std_module \notin {"", "disable"}

\* The artifact of the std module in the build the user started.
StdArtifact == TargetArtifact("std", argv, env, determine_compiler(argv, env), argv.std)

-----------------------------------------------------------------------------
(* C1: with force unset, no module recompiled and the artifact present, an *)
(* artifact is judged stale if and only if some declared input that exists *)
(* is strictly newer than it: the main binary against its sources and      *)
(* declared dependencies, each module artifact against the module's source *)
(* and its dependency files. (Stated for the decision just taken, so the   *)
(* file system is the one the decision saw.)                               *)
C1_StaleIffNewerDeclaredInput ==
    log # <<>> =>
        /\ (/\ Last.ev = "check"
            /\ Last.present
            /\ ~stack[Last.depth].args.force
            /\ ~stack[Last.depth].recompiled_modules)
           => (Last.stale <=> NewerInput(DeclaredInputs(stack[Last.depth].args), Last.path))
        /\ (/\ IsModuleDecision(Last)
            /\ Last.present
            /\ ~stack[Last.depth].args.force)
           => (Last.stale <=>
                 NewerInput(Range(DeclaredFiles(stack[Last.depth].args, Last.name)), Last.path))

-----------------------------------------------------------------------------
(* C2: when the force flag is set, every staleness decision of the run     *)
(* says "rebuild": that on the main binary, those of compile_module on the *)
(* module artifacts, and that taken inside a module child.                 *)
C2_ForceMakesEveryDecisionStale ==
    argv.force =>
        \A k \in 1..Len(log) :
            (log[k].ev = "check" \/ IsModuleDecision(log[k])) => log[k].stale

(* C2 as the code has it: when the force flag is set the decision on the   *)
(* binary of that run says "rebuild" whatever the times are, and the       *)
(* compiler is run on it; the flag is not handed down, so a module child   *)
(* runs without it.                                                        *)
C2_ForceMakesMainDecisionStale ==
    /\ \A k \in 1..Len(log) :
          (argv.force /\ log[k].ev = "check" /\ log[k].depth = 1) =>
              /\ log[k].stale
              /\ k < Len(log) => (log[k + 1].ev = "compile" /\ log[k + 1].depth = 1)
    /\ \A d \in 2..Len(stack) : ~stack[d].args.force

\* The forced run has decided on a binary that no input is newer than.
C2_Witness ==
    /\ log # <<>>
    /\ argv.force
    /\ Last.ev = "compile" /\ Last.depth = 1
    /\ Last.present
    /\ ~stack[1].recompiled_modules
    /\ \A f \in DeclaredInputs(argv) : mtime[f] # 0 /\ mtime[f] < 2

-----------------------------------------------------------------------------
(* C3: an artifact that does not exist is always judged stale, the main    *)
(* binary and every module artifact alike, whatever its inputs are, and    *)
(* the compiler is then run for it: the next thing the run does is the     *)
(* compilation (for a module: the child's decision on the same artifact,   *)
(* which is "rebuild", and then its compilation).                          *)
C3_MissingArtifactIsRebuilt ==
    \A k \in 1..Len(log) :
        /\ (IsModuleDecision(log[k]) /\ ~log[k].present) =>
              /\ log[k].ev = "module_spawn"
              /\ k < Len(log) =>
                    /\ log[k + 1].ev = "check"
                    /\ log[k + 1].depth = log[k].depth + 1
                    /\ log[k + 1].path = log[k].path
                    /\ ~log[k + 1].present
        /\ (log[k].ev = "check" /\ ~log[k].present) =>
              /\ log[k].stale
              /\ k < Len(log) =>
                    /\ log[k + 1].ev = "compile"
                    /\ log[k + 1].depth = log[k].depth
                    /\ log[k + 1].path = log[k].path

\* A module child has run the compiler for a module artifact that was missing
\* and none of whose inputs exists.
C3_Witness ==
    /\ Len(log) >= 3
    /\ Last.ev = "compile" /\ Last.depth = 2
    /\ log[Len(log) - 2].ev = "module_spawn"
    /\ ~log[Len(log) - 2].present
    /\ \A f \in Range(DeclaredFiles(argv, log[Len(log) - 2].name)) : mtime[f] = 0

-----------------------------------------------------------------------------
(* C4: a module that is stale because a dependency file of it is newer     *)
(* than its artifact, its own source being older, has its compiler run and *)
(* its artifact rewritten before the main compilation starts.              *)
C4_StaleByDependencyIsRebuilt ==
    (log # <<>> /\ Last.ev = "compile" /\ Last.depth = 1) =>
        \A i \in 1..(Len(log) - 1) :
            LET files == DeclaredFiles(argv, log[i].name)
                artifact == log[i].path
            IN  (/\ log[i].ev = "module_spawn"
                 /\ log[i].present
                 /\ mtime[files[1]] # 0
                 /\ mtime[files[1]] < mtime[artifact]
                 /\ \E d \in 2..Len(files) : mtime[files[d]] > mtime[artifact])
                => \E j \in (i + 1)..(Len(log) - 1) :
                      /\ log[j].ev = "compile"
                      /\ log[j].path = artifact
                      /\ log[j].rc = 0

-----------------------------------------------------------------------------
(* C5: in a run that builds a program from the std module and other        *)
(* modules, the module builds are recorded with std first and the others   *)
(* in the order the caller declared them, no module is built twice, and    *)
(* when the main compilation begins every module it imports has been       *)
(* looked at and every module build that was started has come back         *)
(* successfully.                                                           *)

\* The order the caller declared the modules in: the command line, then the
\* configuration file.
Declared == argv.module \o DictKeys(config.modules)

FirstIndex(name) ==
    CHOOSE i \in 1..Len(Declared) :
        Declared[i] = name /\ \A j \in 1..(i - 1) : Declared[j] # name

Before(n1, n2) ==
    /\ n1 # n2
    /\ n2 # "std"
    /\ n1 = "std" \/ FirstIndex(n1) < FirstIndex(n2)

C5_ModuleBuildOrder ==
    ~argv.as_module =>
        /\ \A i, j \in 1..Len(log) :
              (/\ i < j
               /\ log[i].ev = "module_spawn" /\ log[i].depth = 1
               /\ log[j].ev = "module_spawn" /\ log[j].depth = 1)
              => Before(log[i].name, log[j].name)
        /\ \A k \in 1..Len(log) :
              (log[k].ev = "compile" /\ log[k].depth = 1) =>
                  /\ \A i \in 1..(k - 1) :
                        (log[i].ev = "module_spawn" /\ log[i].depth = 1) =>
                            \E j \in (i + 1)..(k - 1) :
                                /\ log[j].ev = "module_result"
                                /\ log[j].name = log[i].name
                                /\ log[j].rc = 0
                  /\ \A n \in Range(stack[1].flags) :
                        \E i \in 1..(k - 1) :
                            IsModuleDecision(log[i]) /\ log[i].depth = 1 /\ log[i].name = n

\* std and two other modules, only the middle one stale: std was found up to
\* date, the middle module was built, the last one was found up to date, and
\* the main compilation has run.
C5_Witness ==
    /\ StdRequested(argv) /\ ~argv.as_module /\ Len(Declared) = 2
    /\ Len(log) >= 6
    /\ log[1].ev = "module_up_to_date" /\ log[1].name = "std"
    /\ log[2].ev = "module_spawn" /\ log[2].name = Declared[1]
    /\ \E k \in 3..Len(log) : log[k].ev = "module_up_to_date" /\ log[k].name = Declared[2]
    /\ Last.ev = "compile" /\ Last.depth = 1

-----------------------------------------------------------------------------
(* C6: a run with as_module set, the top-level run or a module child,      *)
(* never precompiles a module other than the std module, whatever modules  *)
(* its command line or the configuration file declare.                     *)
C6_AsModulePrecompilesNoOtherModule ==
    /\ \A k \in 1..Len(log) :
          (IsModuleDecision(log[k]) /\ (log[k].depth >= 2 \/ argv.as_module))
              => log[k].name = "std"
    /\ \A d \in 1..(Len(stack) - 1) :
          stack[d].args.as_module => stack[d].work[stack[d].idx] = "std"

\* A run with as_module set and modules declared has run its compiler.
C6_Witness ==
    /\ log # <<>>
    /\ argv.as_module
    /\ argv.std \in {"c++20", "c++23"}
    /\ argv.module # <<>>
    /\ Last.ev = "compile" /\ Last.depth = 1

-----------------------------------------------------------------------------
(* C7: in a run with as_module set and the std module requested, the std   *)
(* module is ensured first: if its artifact is missing or stale, the std   *)
(* module is precompiled before the run's own compilation.                 *)
C7_AsModuleEnsuresStdFirst ==
    \A k \in 1..Len(log) :
        (/\ argv.as_module
         /\ StdRequested(argv)
         /\ log[k].ev = "compile" /\ log[k].depth = 1
         /\ (mtime[StdArtifact] = 0 \/ NewerInput(Range(DeclaredFiles(argv, "std")), StdArtifact)))
        => \E i \in 1..(k - 1) : log[i].ev = "module_spawn" /\ log[i].name = "std"

(* C7 as the code has it: a run with as_module set and the std module      *)
(* requested imports the std module (its import flags are on the command   *)
(* of the run's own compilation) but precompiles nothing, the std module   *)
(* included: it starts no child and looks at no module artifact.           *)
C7_AsModuleImportsStdUnbuilt ==
    (stack # <<>> /\ argv.as_module /\ StdRequested(argv)) =>
        /\ stack[1].flags = <<"std">>
        /\ Len(stack) = 1
        /\ \A k \in 1..Len(log) : ~IsModuleDecision(log[k]) /\ log[k].ev # "module_result"

\* A run with as_module set has compiled while the requested std module had no
\* artifact.
C7_Witness ==
    /\ log # <<>>
    /\ argv.as_module
    /\ StdRequested(argv)
    /\ mtime[StdArtifact] = 0
    /\ Last.ev = "compile" /\ Last.depth = 1 /\ Last.rc = 0

-----------------------------------------------------------------------------
(* C8: when a module child returns a non-zero exit code the parent aborts  *)
(* at once: nothing follows in the run (no module build, no main           *)
(* compilation, no run of the binary) and the parent has exited with a     *)
(* failure.                                                                *)
C8_ModuleFailureAborts ==
    \A k \in 1..Len(log) :
        (log[k].ev = "module_result" /\ log[k].rc # 0) =>
            /\ k = Len(log)
            /\ Len(stack) = 1
            /\ stack[1].pc = "exit"
            /\ stack[1].returncode # 0

\* The build of a module has failed while another module was still to be
\* looked at and the binary was to be run.
C8_Witness ==
    /\ log # <<>>
    /\ Last.ev = "module_result" /\ Last.rc # 0
    /\ stack[1].idx < Len(stack[1].work)
    /\ argv.run

-----------------------------------------------------------------------------
(* C9: the run exits with 0 on success, and when a module child, the main  *)
(* compiler or the compiled program fails, with that process's own         *)
(* non-zero exit code.                                                     *)

\* The top-level run has exited.
Exited == Len(stack) = 1 /\ stack[1].pc = "exit"

\* The run has exited because a process it started returned a non-zero code.
ChildFailed ==
    /\ Exited /\ log # <<>>
    /\ Last.ev \in {"module_result", "compile", "run"}
    /\ Last.rc > 0

\* The run has exited because a process it started could not be launched.
LaunchFailed ==
    /\ Exited /\ log # <<>>
    /\ Last.ev \in {"compile", "run"}
    /\ Last.rc = -1

-----------------------------------------------------------------------------
(* C10: after a failing main compilation no file exists at the path of the *)
(* binary: none is left if there was none, and a file that was there is    *)
(* removed.                                                                *)
C10_NoArtifactAfterFailedCompile ==
    (log # <<>> /\ Last.ev = "compile" /\ Last.depth = 1 /\ Last.rc > 0) =>
        mtime[stack[1].binary_path] = 0

-----------------------------------------------------------------------------
(* The same build run again and again, inputs touched in between          *)

\* The build the user started has exited.
BuildOver == matrix.pc = "off" /\ Len(stack) = 1 /\ stack[1].pc = "exit"

\* The number of times the user has run the command line.
Runs == 1 + Cardinality({k \in 1..Len(log) : log[k].ev = "invoke"})

\* Between two builds the user touches an input file that exists: it gets the
\* time of now.
Touch(f) ==
    /\ BuildOver
    /\ Runs < MaxRuns
    /\ exists(f)
    /\ Last.ev # "touch"
    /\ mtime' = [mtime EXCEPT ![f] = now]
    /\ log' = Append(log, Event("touch", 0, "", f, TRUE, FALSE, 0))
    /\ UNCHANGED <<config, env, argv, matrix, stack>>

\* The user runs the same command line again; the log keeps the exit code of
\* the run that is over.
Reinvoke ==
    /\ BuildOver
    /\ Runs < MaxRuns
    /\ stack' = <<start(argv)>>
    /\ mtime' = prepare_build_folder(argv)
    /\ log' = Append(log, Event("invoke", 0, "", "", FALSE, FALSE, stack[1].returncode))
    /\ UNCHANGED <<config, env, argv, matrix>>

RebuildOptions ==
    [ script : {"compile_cpp.py"},
      define : {{}},
      include : {{}},
      disable_exceptions : {""},
      abbreviated : {FALSE},
      ignore_config : {FALSE},
      clear_output : {FALSE},
      files : {<<"main.cpp">>},
      output : {""},
      compiler : {""},
      joined : {FALSE},
      std : {"c++23"},
      type : {"debug"},
      flag : {{}},
      try_all : {FALSE},
      std_module : {"", "std.cppm"},
      as_module : {FALSE},
      force : {FALSE},
      run : BOOLEAN,
      module : {<<>>, <<"a">>, <<"std">>},
      deps : {{"dep.hpp"}} ]

\* The command lines that are run again: a program that is built and run, a
\* program that imports a module of its own, a program that imports the
\* standard library module.
RebuildCommandLines ==
    { args \in RebuildOptions :
        /\ args.run <=> args.module = <<>>
        /\ args.std_module = "std.cppm" <=> args.module = <<"std">> }

\* The file systems the first run can find: every target was built at time 2
\* from inputs of time 1, then the artifact of one target was deleted or its
\* headers were edited, or nothing was done.
RebuildFileSystems(args, cfg, e) ==
    { FileSystem(args, e, p, Named(args, cfg), t, art, 1, hdr) :
        p \in Builds(args, e), t \in Named(args, cfg),
        art \in {0, 2}, hdr \in {1, MaxTime} }

RebuildInit ==
    /\ argv \in RebuildCommandLines
    /\ config = NoConfiguration
    /\ env = DefaultEnvironment
    /\ mtime \in RebuildFileSystems(argv, config, env)
    /\ matrix = NoMatrix
    /\ stack = <<>>
    /\ log = <<>>

RebuildNext ==
    \/ Next
    \/ \E f \in InputFiles : Touch(f)
    \/ Reinvoke

RebuildSpec == RebuildInit /\ [][RebuildNext]_vars

-----------------------------------------------------------------------------
(* What the claims on the matrix speak of                                  *)

\* The compiler and the standard of the k-th combination of the enumeration.
TurnCompiler(k) == matrix.compilers[((k - 1) \div 3) + 1]

TurnStd(k) == <<"c++17", "c++20", "c++23">>[((k - 1) % 3) + 1]

Executed == matrix.executed

\* The builds made so far are the first combinations of the enumeration, each
\* once, in its order.
ExecutedInOrder ==
    \A k \in 1..Len(Executed) :
        Executed[k].compiler = TurnCompiler(k) /\ Executed[k].std = TurnStd(k)

MatrixExited == matrix.pc = "exit"

-----------------------------------------------------------------------------
-----------------------------------------------------------------------------
(* C12: the matrix makes its builds in a fixed order, the compilers in the *)
(* order cl, clang++, g++ outside and the standards c++17, c++20, c++23    *)
(* inside, each pair at most once, and the build of a pair runs with that  *)
(* compiler and that standard selected and with warnings as errors.        *)
C12_MatrixOrderAndSelection ==
    /\ ExecutedInOrder
    /\ \A i, j \in 1..Len(matrix.compilers) :
          i < j => \E a, b \in 1..3 :
                      /\ a < b
                      /\ matrix.compilers[i] = <<"cl", "clang++", "g++">>[a]
                      /\ matrix.compilers[j] = <<"cl", "clang++", "g++">>[b]
    /\ \A k \in 1..Len(Executed) :
          /\ Executed[k].args.compiler = Executed[k].compiler
          /\ Executed[k].args.std = Executed[k].std
          /\ (IF Executed[k].compiler = "cl" THEN "/WX" ELSE "-Werror") \in Executed[k].args.flag

-----------------------------------------------------------------------------
(* C13: the matrix reports success, and exits with 0, only when every      *)
(* combination of the enumeration was run and returned zero; once a        *)
(* combination has failed there is no success report and no exit code 0.   *)
C13_SuccessOnlyAfterEveryCombination ==
    /\ (matrix.report \/ (MatrixExited /\ matrix.returncode = 0)) =>
          /\ MatrixExited /\ matrix.report /\ matrix.returncode = 0
          /\ Len(Executed) = 3 * Len(matrix.compilers)
          /\ ExecutedInOrder
          /\ \A k \in 1..Len(Executed) : Executed[k].returncode = 0
    /\ (\E k \in 1..Len(Executed) : Executed[k].returncode # 0) =>
          /\ ~matrix.report
          /\ MatrixExited /\ matrix.returncode # 0

\* Two compilers, six builds that all returned zero: success is reported.
C13_Witness ==
    /\ matrix.report
    /\ Len(matrix.compilers) = 2
    /\ Len(Executed) = 6

-----------------------------------------------------------------------------
(* C14: on a machine without any compiler a run is fatal: it ends with a   *)
(* non-zero exit code and no compiler process and no build was started,    *)
(* a single build (one that is left to find its compiler) and a matrix run *)
(* (whose list of compilers is then empty) alike.                          *)

NothingInstalled == \A c \in {"cl", "clang++", "g++"} : ~installed(env, c)

C14_NoBackendIsFatal ==
    NothingInstalled =>
        /\ MatrixExited => matrix.returncode # 0
        /\ (matrix.pc = "off" /\ stack # <<>> /\ argv.compiler = "") =>
              /\ stack[1].pc = "exit"
              /\ stack[1].returncode # 0
        /\ Executed = <<>>
        /\ \A k \in 1..Len(log) : log[k].ev = "compile" => log[k].rc = -1

-----------------------------------------------------------------------------
(* C17: the import flags of the main compilation have an entry for every   *)
(* declared module, whether the module was rebuilt in this run or found    *)
(* up to date: no declared module is without its import flags.             *)
C17_ImportFlagsForEveryDeclaredModule ==
    (log # <<>> /\ Last.ev = "compile" /\ Last.depth = 1) =>
        \A n \in Range(Declared) : n \in Range(stack[1].flags)

(* C17 as the code has it: in a build that is not itself a module build    *)
(* and whose standard is c++20 or c++23, the import flags of the main      *)
(* compilation have an entry for every declared module other than std,     *)
(* rebuilt or found up to date; an entry for std is there exactly when the *)
(* std module is requested (a path for it, under c++23); under c++17 and   *)
(* in a module build no other module has an entry.                         *)
C17_ImportFlagsForModulesInUse ==
    (log # <<>> /\ Last.ev = "compile" /\ Last.depth = 1) =>
        /\ (~argv.as_module /\ argv.std \in {"c++20", "c++23"}) =>
              \A n \in Range(Declared) \ {"std"} : n \in Range(stack[1].flags)
        /\ "std" \in Range(stack[1].flags) <=> StdRequested(argv)
        /\ (argv.as_module \/ argv.std = "c++17") => Range(stack[1].flags) \subseteq {"std"}

\* The main compilation has run after one module was rebuilt and another was
\* found up to date.
C17_Witness ==
    /\ log # <<>>
    /\ Last.ev = "compile" /\ Last.depth = 1
    /\ \E i, j \in 1..Len(log) :
          /\ log[i].ev = "module_up_to_date" /\ log[i].name # "std"
          /\ log[j].ev = "module_result" /\ log[j].rc = 0 /\ log[j].name # "std"
          /\ {log[i].name, log[j].name} \subseteq Range(stack[1].flags)

-----------------------------------------------------------------------------
(* C18: a compiler that could not be launched at all leaves the build with *)
(* an outcome different from that of a compiler that was launched and      *)
(* returned a non-zero exit code: the error reported is another one (the   *)
(* exit code of the build is 1 in both cases).                             *)
C18_LaunchFailureIsDistinct ==
    (Exited /\ log # <<>> /\ Last.ev = "compile" /\ Last.depth = 1) =>
        /\ Last.rc = -1 => stack[1].error = "compile_exception"
        /\ Last.rc > 0 => stack[1].error = "compile_failed"
        /\ Last.rc = 0 => stack[1].error = ""

\* The build has exited because its compiler could not be launched.
C18_Witness ==
    /\ LaunchFailed
    /\ Last.ev = "compile" /\ Last.depth = 1
    /\ stack[1].error = "compile_exception"

-----------------------------------------------------------------------------
(* C19: if a declared module was recompiled during the build, the main     *)
(* compilation is performed in that build whatever the time of the binary  *)
(* is relative to its sources and dependencies: the decision on the binary *)
(* is "rebuild", the compiler is run next, and the build does not end      *)
(* successfully without it.                                                *)

\* A module child of the build has come back successfully.
ModuleRecompiled(k) == log[k].ev = "module_result" /\ log[k].depth = 1 /\ log[k].rc = 0

C19_RecompiledModuleForcesMainCompile ==
    /\ \A k \in 1..Len(log) :
          (log[k].ev = "check" /\ log[k].depth = 1 /\ \E i \in 1..(k - 1) : ModuleRecompiled(i)) =>
              /\ log[k].stale
              /\ k < Len(log) => (log[k + 1].ev = "compile" /\ log[k + 1].depth = 1)
    /\ (Exited /\ stack[1].returncode = 0 /\ \E i \in 1..Len(log) : ModuleRecompiled(i)) =>
          \E k \in 1..Len(log) : log[k].ev = "compile" /\ log[k].depth = 1 /\ log[k].rc = 0

\* After a module was recompiled the binary, which exists and which none of
\* its inputs is newer than, was judged stale without the force flag.
C19_Witness ==
    /\ log # <<>>
    /\ Last.ev = "check" /\ Last.depth = 1 /\ Last.stale /\ Last.present
    /\ ~argv.force
    /\ \E i \in 1..Len(log) : ModuleRecompiled(i)
    /\ ~NewerInput(DeclaredInputs(argv), Last.path)

-----------------------------------------------------------------------------
(* C20: the artifact path of a module is made of the stem of the module's  *)
(* source file, the build mode, the compiler and the standard (in the      *)
(* build folder) and of nothing else, and the path the parent judges the   *)
(* module on is the path the module child decides on and writes.           *)
C20_ModuleArtifactPath ==
    /\ \A k \in 1..Len(log) :
          (IsModuleDecision(log[k]) /\ log[k].depth = 1) =>
              log[k].path = stem(DeclaredFiles(argv, log[k].name)[1]) \o "_module_" \o argv.type
                              \o "-" \o short_compiler(stack[1].compiler)
                              \o "-cpp" \o std_digits(argv.std)
                              \o module_extension(stack[1].compiler)
    /\ \A k \in 1..Len(log) :
          (log[k].depth = 2 /\ log[k].ev \in {"check", "compile"}) =>
              \E i \in 1..(k - 1) :
                  /\ log[i].ev = "module_spawn" /\ log[i].depth = 1
                  /\ log[i].path = log[k].path
                  /\ \A j \in (i + 1)..(k - 1) : log[j].depth = 2
    /\ \A d \in 2..Len(stack) :
          stack[d].binary_path = module_output_path(stack[d - 1], stack[d - 1].work[stack[d - 1].idx])

\* A module child of a release build has written the artifact of its module.
C20_Witness ==
    /\ log # <<>>
    /\ argv.type = "release"
    /\ Last.ev = "compile" /\ Last.depth = 2 /\ Last.rc = 0
    /\ mtime[Last.path] = now - 1

-----------------------------------------------------------------------------
(* What the claims on repeated builds speak of                             *)

\* Everything the binary of a build is made from: its declared inputs, the
\* files of the modules the build compiles, and their artifacts.
BinaryInputs(frame) ==
    DeclaredInputs(frame.args)
      \cup UNION { Range(DeclaredFiles(frame.args, frame.work[i])) : i \in 1..Len(frame.work) }
      \cup { module_output_path(frame, frame.work[i]) : i \in 1..Len(frame.work) }

\* Every input that exists is strictly older than the artifact.
AllOlder(inputs, artifact) ==
    \A f \in inputs : mtime[f] # 0 => mtime[f] < mtime[artifact]

IsDecision(e) == e.ev = "check" \/ IsModuleDecision(e)

\* The events k and j > k are decisions on the same artifact by the build the
\* user started, with no decision on it in between.
NextDecision(k, j) ==
    /\ k < j
    /\ IsDecision(log[k]) /\ IsDecision(log[j])
    /\ log[k].depth = 1 /\ log[j].depth = 1
    /\ log[k].path = log[j].path
    /\ \A i \in (k + 1)..(j - 1) : ~(IsDecision(log[i]) /\ log[i].depth = 1 /\ log[i].path = log[k].path)

\* The declared inputs of the artifact the decision k is about.
InputsOfDecision(k) ==
    IF log[k].ev = "check" THEN DeclaredInputs(argv)
    ELSE Range(DeclaredFiles(argv, log[k].name))

\* Between the events k and j the build reported the artifact of decision k
\* rebuilt: the compiler of the binary, or the child of the module, returned 0.
RebuiltBetween(k, j) ==
    \E i \in (k + 1)..(j - 1) :
        /\ log[i].depth = 1 /\ log[i].rc = 0
        /\ \/ log[k].ev = "check" /\ log[i].ev = "compile"
           \/ IsModuleDecision(log[k]) /\ log[i].ev = "module_result" /\ log[i].name = log[k].name

TouchedBetween(k, j) == \E i \in (k + 1)..(j - 1) : log[i].ev = "touch"

-----------------------------------------------------------------------------
(* C15: staleness idempotence. With the force flag unset, a decision on an *)
(* artifact that is present and strictly newer than every one of its       *)
(* inputs says "fresh", in the first build and in every repetition of it:  *)
(* a module artifact against the files the module was declared with, the   *)
(* binary against everything it is made from.                              *)
C15_OlderInputsStayFresh ==
    log # <<>> =>
        /\ (/\ Last.ev = "check"
            /\ Last.depth = 1
            /\ Last.present
            /\ ~argv.force
            /\ AllOlder(BinaryInputs(stack[1]), Last.path))
           => ~Last.stale
        /\ (/\ IsModuleDecision(Last)
            /\ Last.depth = 1
            /\ Last.present
            /\ ~argv.force
            /\ AllOlder(Range(DeclaredFiles(argv, Last.name)), Last.path))
           => ~Last.stale

-----------------------------------------------------------------------------
(* C16: staleness monotonicity. After a fresh decision on an artifact,     *)
(* touching one of its declared inputs makes the next decision on it say   *)
(* "stale"; and after a stale decision followed by a rebuild of the        *)
(* artifact that the build reported, with no input touched since, the next *)
(* decision on it says "fresh" again.                                      *)
C16_TouchMakesStaleUntilRebuilt ==
    \A k \in 1..Len(log) : \A j \in 1..Len(log) :
        NextDecision(k, j) =>
            /\ (/\ ~log[k].stale
                /\ \E i \in (k + 1)..(j - 1) :
                      log[i].ev = "touch" /\ log[i].path \in InputsOfDecision(k))
               => log[j].stale
            /\ (/\ log[k].stale
                /\ RebuiltBetween(k, j)
                /\ ~TouchedBetween(k, j)
                /\ \A i \in (k + 1)..j : ~(log[i].ev = "module_result" /\ log[i].rc = 0 /\ log[k].ev = "check"))
               => ~log[j].stale

-----------------------------------------------------------------------------
(* C24: for every declared module, the std module included, the decision   *)
(* of the parent ranges over the module's source and all the dependency    *)
(* files it was declared with: a declared file that exists and is newer    *)
(* than the module artifact makes the decision "stale".                    *)
C24_NewerDeclaredFileMakesModuleStale ==
    log # <<>> =>
        ((/\ IsModuleDecision(Last)
          /\ Last.depth = 1
          /\ NewerInput(Range(DeclaredFiles(stack[1].args, Last.name)), Last.path))
         => Last.stale)

-----------------------------------------------------------------------------
(* C28: the program is run only when --run was given, and only right after *)
(* the main compilation returned 0 or was skipped because the binary was   *)
(* judged up to date; never after a module build or a main compilation     *)
(* that failed. A program that returns non-zero ends the run with the      *)
(* error of a failed run, which is not the error of a failed compilation.  *)
C28_RunOnlyAfterBuild ==
    /\ \A k \in 1..Len(log) :
          log[k].ev = "run" =>
              /\ stack[log[k].depth].args.run
              /\ k > 1
              /\ log[k - 1].depth = log[k].depth
              /\ \/ log[k - 1].ev = "check" /\ ~log[k - 1].stale
                 \/ log[k - 1].ev = "compile" /\ log[k - 1].rc = 0
              /\ \A i \in 1..(k - 1) :
                    ~(log[i].ev \in {"module_result", "compile"} /\ log[i].rc # 0)
    /\ (Exited /\ log # <<>> /\ Last.ev = "run" /\ Last.rc \in ReturnCodes \ {0}) =>
          /\ stack[1].returncode = 1
          /\ stack[1].error = "run_failed"
    /\ (Exited /\ stack[1].error \in {"compile_failed", "compile_exception", "module_failed"}) =>
          \A k \in 1..Len(log) : log[k].ev # "run"

\* The program was run after a successful compilation and returned non-zero.
C28_Witness ==
    /\ Exited
    /\ Len(log) >= 2
    /\ Last.ev = "run" /\ Last.rc = 2
    /\ log[Len(log) - 1].ev = "compile" /\ log[Len(log) - 1].rc = 0
    /\ stack[1].error = "run_failed"

-----------------------------------------------------------------------------
(* C29: the std module is imported (its flags are on the command of the    *)
(* compiler) and precompiled (compile_module is called for it) only under  *)
(* c++23 with a std module path other than "disable"; the other declared   *)
(* modules are imported and precompiled only under c++20 or c++23; under   *)
(* c++17 no module child is spawned and no import flag is added.           *)
C29_ModulesOnlyUnderTheirStandards ==
    /\ \A d \in 1..Len(stack) :
          /\ (\E i \in 1..Len(stack[d].flags) : stack[d].flags[i] = "std") =>
                /\ stack[d].args.std = "c++23"
                /\ stack[d].args.std_module \notin {"", "disable"}
          /\ (\E i \in 1..Len(stack[d].flags) : stack[d].flags[i] # "std") =>
                stack[d].args.std \in {"c++20", "c++23"}
          /\ stack[d].args.std = "c++17" => stack[d].flags = <<>> /\ stack[d].work = <<>>
    /\ \A k \in 1..Len(log) :
          (IsModuleDecision(log[k]) /\ log[k].depth = 1) =>
              /\ argv.std \in {"c++20", "c++23"}
              /\ log[k].name = "std" =>
                    argv.std = "c++23" /\ argv.std_module \notin {"", "disable"}
    /\ argv.std = "c++17" =>
          \A k \in 1..Len(log) : log[k].ev \notin {"module_up_to_date", "module_spawn", "module_result"}

\* A c++17 build that declares modules ended well without a module decision
\* and without an import flag.
C29_Witness ==
    /\ argv.std = "c++17"
    /\ argv.module # <<>>
    /\ Exited
    /\ stack[1].returncode = 0
    /\ stack[1].flags = <<>>
    /\ \E k \in 1..Len(log) : log[k].ev = "compile" /\ log[k].rc = 0
    /\ \A k \in 1..Len(log) : ~IsModuleDecision(log[k])

-----------------------------------------------------------------------------
(* C25: the child that builds the std module runs with as_module set and   *)
(* the std module path "disable", so it neither imports nor precompiles    *)
(* the std module; every module child has no module to precompile and      *)
(* spawns no child, so below a build there is at most one level of         *)
(* children.                                                               *)
C25_StdChildDisablesStdAndChildrenSpawnNothing ==
    /\ Len(stack) <= 2
    /\ Len(stack) = 2 =>
          /\ stack[2].args.as_module
          /\ stack[2].work = <<>>
          /\ stack[2].pc # "modules"
          /\ stack[1].work[stack[1].idx] = "std" =>
                /\ stack[2].args.std_module = "disable"
                /\ \A i \in 1..Len(stack[2].flags) : stack[2].flags[i] # "std"
    /\ \A k \in 1..Len(log) : IsModuleDecision(log[k]) => log[k].depth = 1

\* The child of the std module has compiled it and exited.
C25_Witness ==
    /\ Len(stack) = 2
    /\ stack[1].work[stack[1].idx] = "std"
    /\ stack[2].args.std_module = "disable"
    /\ stack[2].pc = "exit"
    /\ stack[2].returncode = 0
    /\ Last.ev = "compile" /\ Last.depth = 2 /\ Last.rc = 0

-----------------------------------------------------------------------------
(* C27: if a run rebuilt a module and its main compilation then failed     *)
(* without writing a binary, the next run of the same command line, with   *)
(* no input touched, does not judge the binary that was left up to date:   *)
(* its decision on the binary says "rebuild".                              *)
C27_LeftOverBinaryIsRebuilt ==
    \A k \in 1..Len(log) : \A j \in 1..Len(log) :
        (/\ j < k
         /\ log[j].ev = "invoke"
         /\ log[k].ev = "check" /\ log[k].depth = 1
         /\ \E i \in 1..(j - 1) : ModuleRecompiled(i)
         /\ \E i \in 1..(j - 1) :
               log[i].ev = "compile" /\ log[i].depth = 1 /\ log[i].rc > 0 /\ ~log[i].stale
         /\ \A i \in 1..k : log[i].ev # "touch")
        => log[k].stale

-----------------------------------------------------------------------------
(* C21: a --try-all run of compile_cpp.py whose command line selects a     *)
(* compiler or a standard, in whatever spelling the parser accepts, is     *)
(* rejected: it exits with a non-zero code and starts no build.            *)
C21_MatrixWithSelectionRejected ==
    (/\ argv.script = "compile_cpp.py"
     /\ argv.try_all
     /\ (argv.compiler # "" \/ argv.std # "c++23"))
    => /\ matrix.pc \in {"off", "exit"}
       /\ matrix.pc = "exit" => matrix.returncode # 0
       /\ Executed = <<>>
       /\ stack = <<>>

-----------------------------------------------------------------------------
(* C26: a matrix run never recurses: whatever the spelling of the matrix   *)
(* flag, no build started by the driver goes on to the loops itself, the   *)
(* driver starts at most one build per pair of a detected compiler and a   *)
(* standard, and has exited once the last of them has returned.            *)
C26_MatrixDoesNotRecurse ==
    /\ \A d \in 1..Len(stack) : stack[d].pc # "try_all"
    /\ Len(Executed) <= Len(matrix.compilers) * Len(MatrixStandards)
    /\ ExecutedInOrder
    /\ (matrix.pc # "off" /\ Len(Executed) = Len(matrix.compilers) * Len(MatrixStandards))
          => MatrixExited
    /\ \A k \in 1..Len(Executed) :
          Executed[k].args.try_all => Executed[k].returncode # 0

\* The matrix flag was abbreviated: the first build still had it, was
\* rejected because of the driver's -c, and the matrix run exited with 1.
C26_Witness ==
    /\ argv.try_all /\ argv.abbreviated
    /\ MatrixExited
    /\ matrix.returncode = 1
    /\ Len(Executed) = 1
    /\ Executed[1].args.try_all
    /\ Len(stack) = 1
    /\ stack[1].error = "try_all_rejected"

-----------------------------------------------------------------------------
(* C22: where the command line and the configuration file both give an     *)
(* option, the build uses the value of the command line: a module declared *)
(* in both has the files of the command line, the exception policy of the  *)
(* command line stands; the output and the std module path are those of    *)
(* the file only if the command line has none.                             *)
C22_CommandLineTakesPrecedence ==
    (stack # <<>> /\ stack[1].error = "" /\ argv.files # <<>>) =>
        /\ \A i \in 1..Len(argv.module) :
              /\ DictHas(stack[1].modules, argv.module[i])
              /\ DictGet(stack[1].modules, argv.module[i]) = ModuleSpecFiles(argv.module[i])
        /\ argv.disable_exceptions # "" =>
              stack[1].disable_exceptions = (argv.disable_exceptions = "true")
        /\ stack[1].output = IF argv.output # "" THEN argv.output
                             ELSE configuration(argv).output
        /\ stack[1].std_module = IF argv.std_module # "" THEN argv.std_module
                                 ELSE configuration(argv).std_module

-----------------------------------------------------------------------------
(* C23: a module child runs with the compiler, the standard, the build     *)
(* mode, the exception policy, the defines and the include folders its     *)
(* parent has resolved, whatever the options of the parent, --ignore-config *)
(* among them.                                                             *)
C23_ChildRunsWithOptionsOfParent ==
    Len(stack) = 2 =>
        /\ stack[2].compiler = stack[1].compiler
        /\ stack[2].args.std = stack[1].args.std
        /\ stack[2].args.type = stack[1].args.type
        /\ stack[2].disable_exceptions = stack[1].disable_exceptions
        /\ stack[2].defines = stack[1].defines
        /\ stack[2].includes = stack[1].includes

-----------------------------------------------------------------------------
(* C30: with --clear-output, a build whose build folder is the working     *)
(* directory fails at once and deletes nothing; a build with another build *)
(* folder has that folder, empty, before its first module build or         *)
(* compilation, and with no source file it exits with 0 having compiled    *)
(* nothing. A module child is never told to clear, and starting it deletes *)
(* nothing.                                                                *)
C30_ClearOutput ==
    /\ [](/\ (stack # <<>> /\ argv.clear_output /\ stack[1].compiler # "") =>
                IF stack[1].build_folder = ""
                THEN /\ stack = <<stack[1]>>
                     /\ stack[1].pc = "exit"
                     /\ stack[1].returncode # 0
                     /\ log = <<>>
                ELSE /\ exists(stack[1].build_folder)
                     /\ log = <<>> =>
                           \A f \in DOMAIN mtime :
                               in_folder(f, stack[1].build_folder) => ~exists(f)
                     /\ argv.files = <<>> =>
                           /\ stack = <<stack[1]>>
                           /\ stack[1].pc = "exit"
                           /\ stack[1].returncode = 0
                           /\ log = <<>>
          /\ Len(stack) = 2 => ~stack[2].args.clear_output)
    /\ [][/\ (/\ argv.clear_output
              /\ stack = <<>> /\ stack' # <<>>
              /\ stack'[1].build_folder = "") => mtime' = mtime
          /\ (Len(stack) = 1 /\ Len(stack') = 2) => mtime' = mtime]_vars

\* A build folder that held files was cleared and is there, empty, when the
\* build is about to take its first decision.
C30_Witness ==
    /\ argv.clear_output
    /\ stack # <<>>
    /\ stack[1].build_folder = "build/"
    /\ stack[1].pc \in {"modules", "check"}
    /\ log = <<>>
    /\ exists("prog")
    /\ exists("build/")
    /\ ~exists("build/other.txt")

-----------------------------------------------------------------------------
(* clear_folder.py: the script that empties one folder.                    *)
(* The command line is [script, folder]; env tells whether send2trash is   *)
(* installed; the stack holds the script and, above it, one frame for      *)
(* every running call of delete_files_in_folder.                           *)

\* The folders, the regular files and the entry that is neither (a dangling
\* link) of the tree the script works on, and one file outside of it.
ClearFolders == {"folder/", "folder/sub/", "folder/sub/deep/"}
ClearRegular == {"folder/a.txt", "folder/sub/b.txt", "folder/sub/deep/c.txt", "other.txt"}
ClearLinks == {"folder/link"}
ClearPaths == ClearFolders \cup ClearRegular \cup ClearLinks
ClearNames == {"a.txt", "b.txt", "c.txt", "link", "sub/", "deep/"}

\* The path is an entry of the folder.
child_of(path, folder_path) ==
    /\ folder_path \in ClearFolders
    /\ \E name \in ClearNames : path = folder_path \o name

\* The path lies in the folder, at any depth.
RECURSIVE below(_, _)
below(path, folder_path) ==
    \/ child_of(path, folder_path)
    \/ \E c \in ClearPaths : child_of(c, folder_path) /\ below(path, c)

\* child.is_file()
is_file(path) == path \in ClearRegular /\ exists(path)

\* folder_path.iterdir(): the entries of the folder at the time of the call.
iterdir(folder_path) == {c \in ClearPaths : child_of(c, folder_path) /\ exists(c)}

\* A frame of clear_folder.py or of delete_files_in_folder.
clear_frame(folder_path, children, pc, returncode) ==
    [folder_path |-> folder_path, children |-> children, pc |-> pc,
     returncode |-> returncode]

\* sys.exit(f"Error clearing folder ..."): the except branch of the script.
clear_failed == <<clear_frame(argv.folder, {}, "exit", 1)>>

\* The script starts: a folder that is not there is reported and left alone,
\* one that is there is handed to delete_files_in_folder.
clear_folder ==
    /\ stack = <<>>
    /\ IF ~exists(argv.folder)
       THEN /\ stack' = <<clear_frame(argv.folder, {}, "exit", 0)>>
            /\ log' = Append(log, [op |-> "print", path |-> argv.folder,
                                   text |-> "does not exist; creating empty"])
       ELSE /\ stack' = <<clear_frame(argv.folder, {}, "call", 0)>>
            /\ log' = log
    /\ UNCHANGED <<mtime, config, env, argv, matrix>>

\* delete_files_in_folder is called, by the script for the folder or by a
\* running call for an entry that is not a file. iterdir raises when the path
\* is not a folder.
delete_files_in_folder ==
    /\ stack # <<>>
    /\ LET n == Len(stack)
           caller == stack[n]
       IN  \E path \in ClearPaths :
             /\ \/ n = 1 /\ caller.pc = "call" /\ path = caller.folder_path
                \/ caller.pc = "for" /\ path \in caller.children /\ ~is_file(path)
             /\ IF path \in ClearFolders
                THEN /\ stack' = Append(
                         [stack EXCEPT ![n] =
                             IF caller.pc = "call"
                             THEN [caller EXCEPT !.pc = "mkdir"]
                             ELSE [caller EXCEPT !.children = @ \ {path}]],
                         clear_frame(path, iterdir(path), "for", 0))
                     /\ log' = log
                ELSE /\ stack' = clear_failed
                     /\ log' = Append(log, [op |-> "error", path |-> path,
                                            text |-> "Error clearing folder"])
    /\ UNCHANGED <<mtime, config, env, argv, matrix>>

\* child.unlink(), or send2trash of the child: the file leaves the folder.
unlink ==
    /\ stack # <<>>
    /\ LET n == Len(stack)
       IN  /\ stack[n].pc = "for"
           /\ \E c \in stack[n].children :
                /\ is_file(c)
                /\ mtime' = [mtime EXCEPT ![c] = 0]
                /\ stack' = [stack EXCEPT ![n].children = @ \ {c}]
                /\ log' = Append(log, [op |-> IF env.send2trash THEN "send2trash"
                                              ELSE "unlink",
                                       path |-> c, text |-> ""])
    /\ UNCHANGED <<config, env, argv, matrix>>

\* folder_path.rmdir(), or send2trash of the folder, after the loop: the call
\* returns to its caller.
rmdir ==
    /\ stack # <<>>
    /\ LET n == Len(stack)
       IN  /\ stack[n].pc = "for"
           /\ stack[n].children = {}
           /\ mtime' = [mtime EXCEPT ![stack[n].folder_path] = 0]
           /\ stack' = SubSeq(stack, 1, n - 1)
           /\ log' = Append(log, [op |-> IF env.send2trash THEN "send2trash"
                                         ELSE "rmdir",
                                  path |-> stack[n].folder_path, text |-> ""])
    /\ UNCHANGED <<config, env, argv, matrix>>

\* folder.mkdir() and the message of success.
mkdir ==
    /\ Len(stack) = 1
    /\ stack[1].pc = "mkdir"
    /\ mtime' = [mtime EXCEPT ![argv.folder] = now]
    /\ stack' = <<clear_frame(argv.folder, {}, "exit", 0)>>
    /\ log' = Append(log, [op |-> "print", path |-> argv.folder,
                           text |-> "successfully cleared"])
    /\ UNCHANGED <<config, env, argv, matrix>>

\* The command lines: the folder argument names a folder of the tree or, by
\* mistake, a file of it.
ClearCommandLines ==
    [script : {"clear_folder.py"},
     folder : {"folder/", "folder/sub/", "folder/a.txt"}]

\* The file systems: an entry is there only if its folder is.
ClearFileSystems ==
    { fs \in [ClearPaths -> {0, 1}] :
        /\ fs["other.txt"] = 1
        /\ \A p \in ClearPaths, d \in ClearFolders :
               (fs[p] = 1 /\ (\E name \in ClearNames : p = d \o name)) => fs[d] = 1 }

ClearInit ==
    /\ argv \in ClearCommandLines
    /\ env \in [send2trash : BOOLEAN]
    /\ mtime \in ClearFileSystems
    /\ config = NoConfiguration
    /\ matrix = NoMatrix
    /\ stack = <<>>
    /\ log = <<>>

ClearNext ==
    \/ clear_folder
    \/ delete_files_in_folder
    \/ unlink
    \/ rmdir
    \/ mkdir

ClearSpec == ClearInit /\ [][ClearNext]_vars

\* clear_folder.py has finished without error.
Cleared ==
    /\ stack # <<>>
    /\ stack[1].pc = "exit"
    /\ stack[1].returncode = 0

\* C31: when clear_folder.py has finished without error, the folder it was
\* given exists and nothing is in it, whether it existed before or not.
C31_FolderExistsAndIsEmpty ==
    Cleared =>
        /\ exists(argv.folder)
        /\ \A p \in ClearPaths : below(p, argv.folder) => ~exists(p)

\* The same for a folder that was there when the script started: the script
\* has removed something and made the folder again.
C31_ExistingFolderIsCleared ==
    (Cleared /\ Len(log) > 1) =>
        /\ exists(argv.folder)
        /\ \A p \in ClearPaths : below(p, argv.folder) => ~exists(p)

-----------------------------------------------------------------------------
(* Single builds with two modules declared in the configuration file, of    *)
(* different file names or of the same file name in two folders             *)

\* compile_cpp.yaml with the modules a and b, and with the modules a and
\* lib.a, both made from a file named a.cppm.
NamesConfigurations ==
    { [NoConfiguration EXCEPT !.modules = <<<<"a", <<"a.cppm">>>>, <<"b", <<"b.cppm">>>>>>],
      [NoConfiguration EXCEPT !.modules = <<<<"a", <<"a.cppm">>>>, <<"lib.a", <<"lib/a.cppm">>>>>>] }

NamesCommandLines ==
    [ script : {"compile_cpp.py"},
      files : {<<"main.cpp">>},
      output : {"", "build/"},
      compiler : {""},
      joined : {FALSE},
      std : Standards,
      type : {"debug", "release"},
      flag : {{}},
      define : {{}},
      include : {{}},
      disable_exceptions : {""},
      abbreviated : {FALSE},
      ignore_config : {FALSE},
      clear_output : {FALSE},
      try_all : {FALSE},
      std_module : {""},
      as_module : {FALSE},
      force : BOOLEAN,
      run : BOOLEAN,
      module : {<<>>},
      deps : {{}} ]

\* One machine for every compiler the script knows.
NamesEnvironments ==
    { DefaultEnvironment,
      [system |-> "Linux", vs |-> FALSE, clang |-> TRUE, gpp |-> FALSE],
      [system |-> "Windows", vs |-> TRUE, clang |-> FALSE, gpp |-> FALSE] }

\* Nothing was built yet, or everything was after the sources were written.
NamesFileSystems(args, e) ==
    { [f \in OptionsFiles(args, e) \cup {"lib/a.cppm"} |->
          IF f \in InputFiles \cup {"lib/a.cppm"} THEN 1 ELSE art] : art \in {0, 2} }

NamesInit ==
    /\ argv \in NamesCommandLines
    /\ config \in NamesConfigurations
    /\ env \in NamesEnvironments
    /\ mtime \in NamesFileSystems(argv, env)
    /\ matrix = NoMatrix
    /\ stack = <<>>
    /\ log = <<>>

NamesSpec == NamesInit /\ [][Next]_vars

\* The artifact paths of the modules declared in an invocation, by name.
ArtifactPaths(frame) ==
    [i \in 1..Len(frame.modules) |-> module_output_path(frame, frame.modules[i][1])]

\* The invocation resolved its options and is not itself the build of a
\* module, whose binary is the artifact of that module.
BuildsOwnBinary(frame) == frame.error = "" /\ ~frame.args.as_module

\* C33: in an invocation, two declared modules of different names have
\* different artifact paths, and no artifact path of a module is the path of
\* the main binary.
C33_ArtifactPathsDistinct ==
    \A d \in 1..Len(stack) :
        BuildsOwnBinary(stack[d]) =>
            /\ \A i, j \in 1..Len(stack[d].modules) :
                   stack[d].modules[i][1] # stack[d].modules[j][1] =>
                       ArtifactPaths(stack[d])[i] # ArtifactPaths(stack[d])[j]
            /\ \A i \in 1..Len(stack[d].modules) :
                   ArtifactPaths(stack[d])[i] # stack[d].binary_path

\* The same for modules whose first files have different stems.
C33_DifferentStemsDifferentPaths ==
    \A d \in 1..Len(stack) :
        BuildsOwnBinary(stack[d]) =>
            /\ \A i, j \in 1..Len(stack[d].modules) :
                   stem(stack[d].modules[i][2][1]) # stem(stack[d].modules[j][2][1]) =>
                       ArtifactPaths(stack[d])[i] # ArtifactPaths(stack[d])[j]
            /\ \A i \in 1..Len(stack[d].modules) :
                   ArtifactPaths(stack[d])[i] # stack[d].binary_path

\* No module is judged up to date by an artifact that the build of a module
\* of another name wrote in the same invocation.
C33_NoBuildSatisfiesAnother ==
    \A k \in 1..Len(log) :
        (log[k].ev = "module_up_to_date" /\ log[k].depth = 1) =>
            ~\E i \in 1..(k - 1) :
                /\ log[i].ev = "module_spawn" /\ log[i].depth = 1
                /\ log[i].name # log[k].name
                /\ log[i].path = log[k].path

-----------------------------------------------------------------------------
(* What the claim on convergence speaks of                                 *)

\* The event j is the start of a run that follows at once a run that exited
\* with 0: no input was touched in between, and the force flag is not set.
FollowsSuccess(j) ==
    /\ log[j].ev = "invoke"
    /\ log[j].rc = 0
    /\ ~argv.force
    /\ \A i \in 1..j : log[i].ev # "touch"

\* The run that started at event j has started a module child or a compiler.
BuiltSince(j) ==
    \E k \in (j + 1)..Len(log) : log[k].ev \in {"module_spawn", "compile"}

\* The program the run started at event j has run did not return 0.
ProgramFailedSince(j) ==
    \E k \in (j + 1)..Len(log) : log[k].ev = "run" /\ log[k].rc # 0

\* A module child returned 0 before event j without having compiled.
ChildSkippedBefore(j) ==
    \E i \in 2..(j - 1) :
        /\ ModuleRecompiled(i)
        /\ ~(log[i - 1].ev = "compile" /\ log[i - 1].depth = 2 /\ log[i - 1].rc = 0)

\* C32: convergence. A run that follows at once a run that exited with 0,
\* with the same command line, no input touched and the force flag unset,
\* starts no module child and no compiler, and exits with 0 (unless the
\* program it was told to run fails).
C32_SecondRunBuildsNothing ==
    \A j \in 1..Len(log) :
        FollowsSuccess(j) =>
            /\ ~BuiltSince(j)
            /\ (BuildOver /\ ~ProgramFailedSince(j)) => stack[1].returncode = 0

\* The same for a first run in which every module child that returned 0 had
\* compiled its module.
C32_ConvergesWhenChildrenCompiled ==
    \A j \in 1..Len(log) :
        (FollowsSuccess(j) /\ ~ChildSkippedBefore(j)) =>
            /\ ~BuiltSince(j)
            /\ (BuildOver /\ ~ProgramFailedSince(j)) => stack[1].returncode = 0

=============================================================================
